---- MODULE Spec2Model ----
(***************************************************************************)
(* Authentication and session-lifecycle core of the ERP client:            *)
(*   - the credential store (stores/authStore.ts),                         *)
(*   - the tenant and operator request gateways (services/api.ts),         *)
(*   - the callers that establish and terminate sessions (pages/Login.tsx, *)
(*     SuperLogin, SuperLayout, the payment overlay of the tenant route).  *)
(*                                                                         *)
(* Every network request in flight occupies one slot of `calls`, whichever *)
(* gateway it went through.                                                *)
(*                                                                         *)
(* Strings of the program are kept as strings; URLs and paths are kept as  *)
(* sequences of their segments ("/api/v1/acme" is <<"api","v1","acme">>),  *)
(* the empty sequence standing for "not set".  null and undefined are the  *)
(* string Null.  A status of 0 stands for an error without a response.     *)
(***************************************************************************)
EXTENDS Integers, Sequences, FiniteSets, TLC

Null == "null"

\* ---- bounds of the model ------------------------------------------------
\* Number of network requests that can be in flight at once.
MaxCalls == 2

Calls == 1..MaxCalls

\* Number of verification calls of the operator login in flight at once.
MaxStepCalls == 1

\* Length of the idle window (SESSION_TIMEOUT_MS) in ticks of the clock.
TimeoutTicks == 2

\* ---- values the backend and the user can supply --------------------------
Slugs == {"acme", "beta"}
Users == {"alice"}
Admins == {"root"}
AccessTokens == {"T1", "T2"}
RefreshTokens == {"R1"}
SuperTokens == {"S1"}
SuperRefreshTokens == {"SR1"}

\* Paths handed to the tenant gateway: a business path and an operator path.
Urls == {<<"products">>, <<"api", "v1", "super", "tenants">>}
\* Paths handed to the operator gateway (relative to its base URL).
SuperUrls == {<<"dashboard", "stats">>, <<"auth", "verify-step4">>}

\* Statuses of a failed call other than 401; 0 is "no response at all".
OtherErrorStatuses == {0, 500}
ErrorStatuses == {401} \cup OtherErrorStatuses
ReplayStatuses == {200} \cup ErrorStatuses

\* Bodies of a 2xx answer of the refresh endpoint: the new access token
\* nested under tokens, at top level, at both places, or missing.
NoData == [tokens_access_token |-> Null, access_token |-> Null]
RefreshData ==
    {[tokens_access_token |-> "T2", access_token |-> Null],
     [tokens_access_token |-> Null, access_token |-> "T2"],
     [tokens_access_token |-> "T2", access_token |-> "T1"],
     NoData}

\* What the user can type into the operator login form.
Usernames == {"root", "eve"}
Passwords == {"pw"}
Pins == {"1234"}
SecurityCodes == {"code"}

\* Failed answers of a verification call: 401, locked, throttled, none.
StepErrorStatuses == {401, 423, 429, 0}
LockDetail == "Locked for 5 minutes"
\* err.response?.data?.detail: lock and throttle answers carry a message.
detail(status) == IF status \in {423, 429} THEN LockDetail ELSE Null

VARIABLES
    store,  \* the state of useAuthStore
    calls,  \* the network requests in flight and their handlers
    joined, \* history: joined[c] is the request whose refresh POST was in
            \* flight when the 401 of request c arrived (0 if there was none)
    page,   \* the component state of SuperLoginPage
    idle,   \* the idle monitor (useSessionTimeout) and its clock
    seen,   \* history: what the mounted login page has observed so far
    gate,   \* TenantProtectedRoute: its state, its interval and its polls
    boot    \* the _hasHydrated flag of the store, the stage of the persist
            \* middleware's rehydration, the durable storage it reads, and
            \* what the route guards rendered last

\* What the actions of the gateways and the store leave alone.
aux == <<joined, page, idle, seen, gate, boot>>

vars == <<store, calls, joined, page, idle, seen, gate, boot>>

\* ---- credential store ----------------------------------------------------
InitialStore ==
    [user |-> Null, token |-> Null, refreshToken |-> Null, tenantSlug |-> Null,
     isAuthenticated |-> FALSE,
     superAdmin |-> Null, superToken |-> Null, superRefreshToken |-> Null,
     isSuperAdmin |-> FALSE]

setAuth(s, user, token, refreshToken, tenantSlug) ==
    [s EXCEPT !.user = user, !.token = token, !.refreshToken = refreshToken,
              !.tenantSlug = tenantSlug, !.isAuthenticated = TRUE,
              !.superAdmin = Null, !.superToken = Null,
              !.superRefreshToken = Null, !.isSuperAdmin = FALSE]

setToken(s, token) == [s EXCEPT !.token = token]

\* Mutant of logout: the slug is kept.
logoutKeepsSlug(s) ==
    [s EXCEPT !.user = Null, !.token = Null, !.refreshToken = Null,
              !.isAuthenticated = FALSE]

logout(s) ==
    [s EXCEPT !.user = Null, !.token = Null, !.refreshToken = Null,
              !.tenantSlug = Null, !.isAuthenticated = FALSE]

\* Mutant of setSuperAuth: the tenant state is not cleared.
setSuperAuthKeepsTenant(s, admin, token, refreshToken) ==
    [s EXCEPT !.superAdmin = admin, !.superToken = token,
              !.superRefreshToken = refreshToken, !.isSuperAdmin = TRUE]

setSuperAuth(s, admin, token, refreshToken) ==
    [s EXCEPT !.superAdmin = admin, !.superToken = token,
              !.superRefreshToken = refreshToken, !.isSuperAdmin = TRUE,
              !.user = Null, !.token = Null, !.refreshToken = Null,
              !.tenantSlug = Null, !.isAuthenticated = FALSE]

\* Mutant of superLogout: the whole store is reset.
superLogoutClearsAll(s) ==
    [user |-> Null, token |-> Null, refreshToken |-> Null, tenantSlug |-> Null,
     isAuthenticated |-> FALSE,
     superAdmin |-> Null, superToken |-> Null, superRefreshToken |-> Null,
     isSuperAdmin |-> FALSE]

superLogout(s) ==
    [s EXCEPT !.superAdmin = Null, !.superToken = Null,
              !.superRefreshToken = Null, !.isSuperAdmin = FALSE]

\* ---- navigation targets --------------------------------------------------
NoRedirect == <<>>
TenantLogin(slug) == <<slug, "login">>
OperatorEntry == <<"s-panel", "access">>

\* ---- requests ------------------------------------------------------------
\* What the caller of a request has received so far.
Pending == [state |-> "pending", of |-> "none", status |-> 0]
Resolved(of, status) == [state |-> "resolved", of |-> of, status |-> status]
Rejected(of, status) == [state |-> "rejected", of |-> of, status |-> status]

\* A request slot.  via is the sender (api, superApi, or axios for a request
\* sent without a gateway); url, baseURL and Authorization are the request
\* config; tenantSlug is the local of the tenant 401 handler; refresh and
\* data are the state and the 2xx body of its refresh POST; refreshes and
\* replays count the refresh POSTs and the re-sends issued for the request;
\* redirect is the value its handler assigned to window.location.href.
\* body is the payload of a verification call of the operator login, hasCode
\* the hasCode its handler closed over, and stale tells that the component
\* instance that issued it has been unmounted.
NoBody ==
    [username |-> Null, password |-> Null, pin |-> Null, security_code |-> Null]

IdleCall ==
    [pc |-> "idle", via |-> "none", url |-> <<>>, baseURL |-> <<>>,
     Authorization |-> Null, tenantSlug |-> Null, refresh |-> "none",
     data |-> NoData, refreshes |-> 0, replays |-> 0, result |-> Pending,
     redirect |-> NoRedirect, body |-> NoBody, hasCode |-> FALSE,
     stale |-> FALSE]

\* A finished request keeps what its caller and the browser observed, and
\* the body of a refresh answer that led to no re-send.
Finished(call, result, redirect) ==
    [IdleCall EXCEPT !.pc = "done", !.via = call.via, !.refresh = call.refresh,
                     !.data = IF call.replays = 0 THEN call.data ELSE NoData,
                     !.refreshes = call.refreshes, !.replays = call.replays,
                     !.result = result, !.redirect = redirect]

\* The requests whose refresh POST is in flight.
Refreshing == {c \in Calls : calls[c].pc = "refreshing"}

Min(S) == CHOOSE x \in S : \A y \in S : x <= y

\* Requests are numbered in the order they are issued.
FirstIdle(c) ==
    /\ calls[c].pc = "idle"
    /\ \A d \in Calls : d < c => calls[d].pc # "idle"

\* ---- tenant gateway: request interceptor ---------------------------------
\* config.url.startsWith('/api/v1/super')
IsSuperPath(url) ==
    /\ Len(url) >= 3
    /\ SubSeq(url, 1, 3) = <<"api", "v1", "super">>

\* Mutant of apiBaseURL: the operator prefix is not exempted.
apiBaseURLAnyPath(s, url) ==
    IF s.tenantSlug # Null /\ url # <<>>
    THEN <<"api", "v1", s.tenantSlug>>
    ELSE <<>>

\* The base URL the request interceptor sets; <<>> when it sets none.
apiBaseURL(s, url) ==
    IF s.tenantSlug # Null /\ url # <<>> /\ ~IsSuperPath(url)
    THEN <<"api", "v1", s.tenantSlug>>
    ELSE <<>>

\* The bearer token the request interceptor attaches; Null when none.
apiAuthorization(s) == s.token

\* ---- operator gateway: instance and request interceptor ------------------
superBaseURL == <<"api", "v1", "super">>

superAuthorization(s) == s.superToken

\* ---- operator login page: component state --------------------------------
\* The useState values of a SuperLoginPage instance that has just mounted.
FreshPage ==
    [mounted |-> TRUE, step |-> 1, username |-> "", password |-> "",
     pin |-> "", securityCode |-> "", hasPin |-> TRUE, hasCode |-> TRUE,
     error |-> "", loading |-> FALSE, lockMsg |-> ""]

\* No instance of the page is mounted.
NoPage == [FreshPage EXCEPT !.mounted = FALSE]

\* History of a page instance: passed is the set of identities for which it
\* has observed a 2xx answer of verify-step1, reports[u] the factors that the
\* last answer of verify-step2 it has observed for identity u declared.
NoReport == {"none"}
Declared(data) ==
    (IF data.has_pin THEN {"pin"} ELSE {}) \cup
    (IF data.has_code THEN {"code"} ELSE {})
\* from is the step the page showed when it last moved forward to step 4.
NoSeen ==
    [passed |-> {}, reports |-> [u \in Usernames |-> NoReport], from |-> 0]

\* ---- idle monitor: state ------------------------------------------------
\* mode is the domain the mounted monitor watches ("none": not mounted);
\* timers holds the remaining ticks of every pending setTimeout(doLogout),
\* timerRef the one timerRef.current points to (-1: null); quiet counts the
\* ticks since the monitor was mounted or last saw a tracked event; href is
\* the value doLogout assigned to window.location.href.
\* listeners counts the handler sets attached to the window; owner is the mode
\* captured by the doLogout of the timeouts last created.
NoMonitor ==
    [mode |-> "none", timers |-> {}, timerRef |-> -1, quiet |-> 0,
     href |-> NoRedirect, listeners |-> 0, owner |-> "none"]

\* ---- access gate (TenantProtectedRoute): data ---------------------------
MaxPolls == 2
Polls == 1..MaxPolls

\* The user objects setUser stores: the user with payment_required true (and
\* the message "pay") and with payment_required false (and the message "").
\* A user of Users is the object of the login answer, which carries neither.
DueUser == [alice |-> "alice+due"]
PaidUser == [alice |-> "alice+paid"]
BaseUser(user) == CHOOSE u \in Users : user \in {u, DueUser[u], PaidUser[u]}

\* user.payment_required, as "true", "false" or "undefined".
payment_required(user) ==
    IF \E u \in Users : user = DueUser[u] THEN "true"
    ELSE IF \E u \in Users : user = PaidUser[u] THEN "false"
    ELSE "undefined"

\* The 2xx bodies of GET /api/v1/tenant/<slug>/info.
PollData ==
    {[payment_required |-> FALSE, payment_message |-> ""],
     [payment_required |-> TRUE, payment_message |-> "pay"]}

\* !!data.payment_required, in the form of payment_required(user).
Reported(data) == IF data.payment_required THEN "true" ELSE "false"

\* A poll slot: live says that the component instance that issued the poll
\* is still mounted; user and urlSlug are what its checkTenantStatus closed
\* over.
NoPoll == [pc |-> "idle", live |-> FALSE, user |-> Null, urlSlug |-> Null]

\* No TenantProtectedRoute is mounted.  user is the user the component's
\* checkTenantStatus closed over; last is history: the payment_required of
\* the latest 2xx answer the mounted component received.
NoGate ==
    [mounted |-> FALSE, urlSlug |-> Null, paymentBlock |-> FALSE,
     paymentMsg |-> "", interval |-> FALSE, user |-> Null, last |-> "none",
     polls |-> [p \in Polls |-> NoPoll]]

\* ---- restoration (persist middleware): data ------------------------------
\* The item 'auth-storage' as the rehydration finds it: missing, unreadable,
\* or the fields partialize wrote.
Absent == [kind |-> "absent", state |-> InitialStore]
Corrupt == [kind |-> "corrupt", state |-> InitialStore]
Item(state) == [kind |-> "state", state |-> state]

NoView == [route |-> "none", urlSlug |-> Null, out |-> "none"]

\* The application after restoration; the storage is only looked at while
\* the document starts.
Ready == [hasHydrated |-> TRUE, stage |-> "done", storage |-> Absent,
          view |-> NoView]

Init ==
    /\ boot = Ready
    /\ gate = NoGate
    /\ store = InitialStore
    /\ calls = [c \in Calls |-> IdleCall]
    /\ joined = [c \in Calls |-> 0]
    /\ page = FreshPage
    /\ idle = NoMonitor
    /\ seen = NoSeen

\* ---- tenant login (LoginPage.handleLogin) --------------------------------
LoginUrl(slug) == <<"api", "v1", slug, "auth", "login">>

\* The form of /:tenantSlug/login is submitted: the login POST is issued.
\* The page redirects away when a session for this slug is already stored.
LoginSubmit(c, slug) ==
    /\ FirstIdle(c)
    /\ ~(store.isAuthenticated /\ store.tenantSlug = slug)
    /\ calls' = [calls EXCEPT ![c] =
                   [IdleCall EXCEPT !.pc = "sent", !.via = "axios",
                                    !.url = LoginUrl(slug)]]
    /\ UNCHANGED store

\* The login POST succeeds: setAuth(data.user, access, refresh, tenantSlug),
\* tenantSlug being the slug of the page's URL.
LoginSuccess(c, user, token, refreshToken) ==
    /\ calls[c].pc = "sent"
    /\ calls[c].via = "axios"
    /\ store' = setAuth(store, user, token, refreshToken, calls[c].url[3])
    /\ calls' = [calls EXCEPT ![c] = IdleCall]

\* The login POST fails: only the page's error text changes.
LoginFailure(c) ==
    /\ calls[c].pc = "sent"
    /\ calls[c].via = "axios"
    /\ calls' = [calls EXCEPT ![c] = IdleCall]
    /\ UNCHANGED store

\* ---- tenant gateway: calls -----------------------------------------------
\* A page behind the tenant route guard calls api.get/post(url): the request
\* interceptor sets the partition and the bearer token, the call is sent.
ApiSend(c, url) ==
    /\ FirstIdle(c)
    /\ store.isAuthenticated
    /\ calls' = [calls EXCEPT ![c] =
                   [IdleCall EXCEPT !.pc = "sent", !.via = "api", !.url = url,
                                    !.baseURL = apiBaseURL(store, url),
                                    !.Authorization = apiAuthorization(store)]]
    /\ UNCHANGED store

\* A 2xx answer: the response interceptor hands it to the caller.
ApiResponseOk(c) ==
    /\ calls[c].pc = "sent"
    /\ calls[c].via = "api"
    /\ calls' = [calls EXCEPT ![c] =
                   Finished(calls[c], Resolved("original", 200), NoRedirect)]
    /\ UNCHANGED store

\* Mutant of noRefreshRedirect: no fallback for an unknown slug.
noRefreshRedirectNoFallback(tenantSlug) == TenantLogin(tenantSlug)

\* Redirect target of the 401 handler when it cannot refresh.
noRefreshRedirect(tenantSlug) ==
    IF tenantSlug # Null THEN TenantLogin(tenantSlug) ELSE OperatorEntry

\* Mutant of apiResponseError: every failed answer is handled like a 401.
apiResponseErrorAnyStatus(c, status) ==
    LET refreshToken == store.refreshToken
        tenantSlug == store.tenantSlug
    IN  IF refreshToken # Null /\ tenantSlug # Null
        THEN /\ calls' = [calls EXCEPT ![c].pc = "refreshing",
                                       ![c].tenantSlug = tenantSlug,
                                       ![c].refresh = "pending",
                                       ![c].refreshes = @ + 1]
             /\ UNCHANGED store
        ELSE /\ store' = logout(store)
             /\ calls' = [calls EXCEPT ![c] =
                            Finished(calls[c], Rejected("original", status),
                                     noRefreshRedirect(tenantSlug))]

\* The error handler of the response interceptor, up to its first await.
apiResponseError(c, status) ==
    IF status = 401
    THEN LET refreshToken == store.refreshToken
             tenantSlug == store.tenantSlug
         IN  IF refreshToken # Null /\ tenantSlug # Null
             THEN /\ calls' = [calls EXCEPT ![c].pc = "refreshing",
                                            ![c].tenantSlug = tenantSlug,
                                            ![c].refresh = "pending",
                                            ![c].refreshes = @ + 1]
                  /\ UNCHANGED store
             ELSE /\ store' = logout(store)
                  /\ calls' = [calls EXCEPT ![c] =
                                 Finished(calls[c], Rejected("original", 401),
                                          noRefreshRedirect(tenantSlug))]
    ELSE /\ calls' = [calls EXCEPT ![c] =
                        Finished(calls[c], Rejected("original", status),
                                 NoRedirect)]
         /\ UNCHANGED store

\* A failed answer (or none) to a call sent through the tenant gateway.
ApiResponseError(c, status) ==
    /\ calls[c].pc = "sent"
    /\ calls[c].via = "api"
    /\ apiResponseError(c, status)

\* response.data.tokens?.access_token || response.data.access_token
newToken(data) ==
    IF data.tokens_access_token # Null
    THEN data.tokens_access_token
    ELSE data.access_token

\* The handler resumes after a 2xx answer of the refresh POST.  (The config
\* of an error that carries a response is always set, so the call is re-sent
\* whenever a token was found.)
refreshSuccess(c, data) ==
    IF newToken(data) # Null
    THEN /\ store' = setToken(store, newToken(data))
         /\ calls' = [calls EXCEPT ![c].pc = "replaying",
                                   ![c].tenantSlug = Null,
                                   ![c].refresh = "ok",
                                   ![c].data = data,
                                   ![c].Authorization = newToken(data),
                                   ![c].replays = @ + 1]
    ELSE /\ calls' = [calls EXCEPT ![c] =
                        Finished([calls[c] EXCEPT !.refresh = "ok",
                                                  !.data = data],
                                 Rejected("original", 401), NoRedirect)]
         /\ UNCHANGED store

RefreshSuccess(c, data) ==
    /\ calls[c].pc = "refreshing"
    /\ refreshSuccess(c, data)

\* Mutant of refreshFailure: the session is left in place.
refreshFailureKeepsSession(c) ==
    /\ calls' = [calls EXCEPT ![c] =
                   Finished([calls[c] EXCEPT !.refresh = "failed"],
                            Rejected("original", 401),
                            TenantLogin(calls[c].tenantSlug))]
    /\ UNCHANGED store

\* The refresh POST fails: the catch block of the handler.
refreshFailure(c) ==
    /\ store' = logout(store)
    /\ calls' = [calls EXCEPT ![c] =
                   Finished([calls[c] EXCEPT !.refresh = "failed"],
                            Rejected("original", 401),
                            TenantLogin(calls[c].tenantSlug))]

RefreshFailure(c) ==
    /\ calls[c].pc = "refreshing"
    /\ refreshFailure(c)

\* Mutant of replayResponse: the call is re-sent through the gateway, whose
\* response interceptor handles a second 401 like the first.
replayResponseViaGateway(c, status) ==
    IF status = 401
    THEN apiResponseError(c, status)
    ELSE /\ calls' = [calls EXCEPT ![c] =
                        Finished(calls[c],
                                 IF status = 200 THEN Resolved("replay", status)
                                                 ELSE Rejected("replay", status),
                                 NoRedirect)]
         /\ UNCHANGED store

\* The answer to the re-sent call.  It was sent with the bare axios function,
\* so no interceptor of the gateway sees it: it goes to the caller as it is.
replayResponse(c, status) ==
    /\ calls' = [calls EXCEPT ![c] =
                   Finished(calls[c],
                            IF status = 200 THEN Resolved("replay", status)
                                            ELSE Rejected("replay", status),
                            NoRedirect)]
    /\ UNCHANGED store

ReplayResponse(c, status) ==
    /\ calls[c].pc = "replaying"
    /\ replayResponse(c, status)

\* ---- operator gateway: calls ---------------------------------------------
IsFinalLogin(url) == url = <<"auth", "verify-step4">>

\* superApi.get/post(url): the finalization call of the operator login is
\* issued by the login page, which renders nothing once isSuperAdmin is set;
\* every other call is issued by a page behind the operator route guard.
SuperSend(c, url) ==
    /\ FirstIdle(c)
    /\ IF IsFinalLogin(url) THEN ~store.isSuperAdmin ELSE store.isSuperAdmin
    /\ calls' = [calls EXCEPT ![c] =
                   [IdleCall EXCEPT !.pc = "sent", !.via = "superApi",
                                    !.url = url, !.baseURL = superBaseURL,
                                    !.Authorization = superAuthorization(store)]]
    /\ UNCHANGED store

\* A 2xx answer on the operator gateway.  The answer to verify-step4 carries
\* the operator identity and its tokens: doFinalLogin calls setSuperAuth.
SuperResponseOk(c, admin, token, refreshToken) ==
    /\ calls[c].pc = "sent"
    /\ calls[c].via = "superApi"
    /\ store' = IF IsFinalLogin(calls[c].url)
                THEN setSuperAuth(store, admin, token, refreshToken)
                ELSE store
    /\ calls' = [calls EXCEPT ![c] =
                   Finished(calls[c], Resolved("original", 200), NoRedirect)]

\* The error handler of the operator gateway's response interceptor.
superResponseError(c, status) ==
    IF status = 401
    THEN /\ store' = superLogout(store)
         /\ calls' = [calls EXCEPT ![c] =
                        Finished(calls[c], Rejected("original", 401),
                                 OperatorEntry)]
    ELSE /\ calls' = [calls EXCEPT ![c] =
                        Finished(calls[c], Rejected("original", status),
                                 NoRedirect)]
         /\ UNCHANGED store

SuperResponseError(c, status) ==
    /\ calls[c].pc = "sent"
    /\ calls[c].via = "superApi"
    /\ superResponseError(c, status)

\* The caller has consumed the outcome; the slot can carry another request.
Return(c) ==
    /\ calls[c].pc = "done"
    /\ calls' = [calls EXCEPT ![c] = IdleCall]
    /\ UNCHANGED store

\* ---- explicit logout -----------------------------------------------------
\* The logout button of the tenant route: logout(), then the page leaves for
\* the tenant's login path.
UserLogout ==
    /\ store.isAuthenticated
    /\ store' = logout(store)
    /\ UNCHANGED calls

\* SuperLayout.handleLogout: superLogout() and a router navigation.
UserSuperLogout ==
    /\ store.isSuperAdmin
    /\ store' = superLogout(store)
    /\ UNCHANGED calls

Next ==
    \/ \E c \in Calls, slug \in Slugs : LoginSubmit(c, slug) /\ UNCHANGED aux
    \/ \E c \in Calls, user \in Users, token \in AccessTokens,
          refreshToken \in RefreshTokens :
          LoginSuccess(c, user, token, refreshToken) /\ UNCHANGED aux
    \/ \E c \in Calls : LoginFailure(c) /\ UNCHANGED aux
    \/ \E c \in Calls, url \in Urls : ApiSend(c, url) /\ UNCHANGED aux
    \/ \E c \in Calls : ApiResponseOk(c) /\ UNCHANGED aux
    \/ \E c \in Calls, status \in ErrorStatuses :
          ApiResponseError(c, status) /\ UNCHANGED aux
    \/ \E c \in Calls, data \in RefreshData :
          RefreshSuccess(c, data) /\ UNCHANGED aux
    \/ \E c \in Calls : RefreshFailure(c) /\ UNCHANGED aux
    \/ \E c \in Calls, status \in ReplayStatuses :
          ReplayResponse(c, status) /\ UNCHANGED aux
    \/ \E c \in Calls, url \in SuperUrls : SuperSend(c, url) /\ UNCHANGED aux
    \/ \E c \in Calls, admin \in Admins, token \in SuperTokens,
          refreshToken \in SuperRefreshTokens :
          SuperResponseOk(c, admin, token, refreshToken) /\ UNCHANGED aux
    \/ \E c \in Calls, status \in ErrorStatuses :
          SuperResponseError(c, status) /\ UNCHANGED aux
    \/ \E c \in Calls : Return(c) /\ UNCHANGED aux
    \/ UserLogout /\ UNCHANGED aux
    \/ UserSuperLogout /\ UNCHANGED aux

Spec == Init /\ [][Next]_vars

\* ---- batches of concurrent 401s ------------------------------------------
\* The tenant gateway alone, with the history of which refresh POST was in
\* flight when a 401 arrived.
TrackJoined ==
    /\ joined' = [c \in Calls |->
                    IF calls[c].pc = "sent" /\ calls'[c].pc = "refreshing"
                    THEN IF Refreshing = {} THEN 0 ELSE Min(Refreshing)
                    ELSE IF calls'[c].pc = "idle" THEN 0
                    ELSE IF joined[c] # 0 /\ calls'[joined[c]].pc = "idle"
                    THEN 0
                    ELSE joined[c]]
    /\ UNCHANGED <<page, idle, seen, gate, boot>>

NextBatch ==
    \/ \E c \in Calls, slug \in Slugs : LoginSubmit(c, slug) /\ TrackJoined
    \/ \E c \in Calls, user \in Users, token \in AccessTokens,
          refreshToken \in RefreshTokens :
          LoginSuccess(c, user, token, refreshToken) /\ TrackJoined
    \/ \E c \in Calls : LoginFailure(c) /\ TrackJoined
    \/ \E c \in Calls : ApiSend(c, <<"products">>) /\ TrackJoined
    \/ \E c \in Calls : ApiResponseOk(c) /\ TrackJoined
    \/ \E c \in Calls, status \in ErrorStatuses :
          ApiResponseError(c, status) /\ TrackJoined
    \/ \E c \in Calls, data \in RefreshData :
          RefreshSuccess(c, data) /\ TrackJoined
    \/ \E c \in Calls : RefreshFailure(c) /\ TrackJoined
    \/ \E c \in Calls, status \in ReplayStatuses :
          ReplayResponse(c, status) /\ TrackJoined
    \/ \E c \in Calls : Return(c) /\ TrackJoined
    \/ UserLogout /\ TrackJoined

SpecBatch == Init /\ [][NextBatch]_vars

\* ---- operator login page: handlers ---------------------------------------
StepUrl(n) ==
    <<"auth",
      <<"verify-step1", "verify-step2", "verify-step3", "verify-step4">>[n]>>

IsStepCall(call) ==
    call.via = "superApi" /\ \E n \in 1..4 : call.url = StepUrl(n)

\* The step whose verification endpoint a call goes to.
Stage(call) == CHOOSE n \in 1..4 : call.url = StepUrl(n)

\* What a 2xx answer of verify-step2 reports.
FactorReports == [has_pin : BOOLEAN, has_code : BOOLEAN]

PinPlaceholder == "000000"
CodePlaceholder == "default"

\* superApi.post(url, body) issued by a handler of the page; hasCode is the
\* value of the state handleStep3 closed over (FALSE for the other handlers,
\* which do not read it).
verify(url, body, hasCode) ==
    [IdleCall EXCEPT !.pc = "sent", !.via = "superApi", !.url = url,
                     !.baseURL = superBaseURL,
                     !.Authorization = superAuthorization(store),
                     !.body = body, !.hasCode = hasCode]

\* A state update made by the handler of request c: it has no effect once
\* the component instance of the handler is unmounted.
Shown(c, p) == IF calls[c].stale THEN page ELSE p

\* The component instance is gone: its requests in flight stay in flight.
Orphan(call) == IF IsStepCall(call) THEN [call EXCEPT !.stale = TRUE] ELSE call

\* The verification calls in flight.
StepCalls == {d \in Calls : calls[d].pc = "sent" /\ IsStepCall(calls[d])}

\* The input of the current step is edited.
setUsername(v) ==
    /\ page.mounted /\ page.step = 1
    /\ page' = [page EXCEPT !.username = v]
    /\ UNCHANGED <<store, calls, joined, idle, seen, gate, boot>>

setPassword(v) ==
    /\ page.mounted /\ page.step = 2
    /\ page' = [page EXCEPT !.password = v]
    /\ UNCHANGED <<store, calls, joined, idle, seen, gate, boot>>

setPin(v) ==
    /\ page.mounted /\ page.step = 3
    /\ page' = [page EXCEPT !.pin = v]
    /\ UNCHANGED <<store, calls, joined, idle, seen, gate, boot>>

setSecurityCode(v) ==
    /\ page.mounted /\ page.step = 4
    /\ page' = [page EXCEPT !.securityCode = v]
    /\ UNCHANGED <<store, calls, joined, idle, seen, gate, boot>>

\* handleStep1 up to its await.  (The Enter key runs the handlers of the
\* page whether or not a call is loading.)
handleStep1(c) ==
    /\ FirstIdle(c)
    /\ page.mounted /\ page.step = 1
    /\ page.username # ""
    /\ page' = [page EXCEPT !.loading = TRUE, !.error = "", !.lockMsg = ""]
    /\ calls' = [calls EXCEPT ![c] =
                   verify(StepUrl(1),
                          [NoBody EXCEPT !.username = page.username],
                          FALSE)]
    /\ UNCHANGED <<store, joined, idle, seen, gate, boot>>

\* handleStep2 up to its await.
handleStep2(c) ==
    /\ FirstIdle(c)
    /\ page.mounted /\ page.step = 2
    /\ page.password # ""
    /\ page' = [page EXCEPT !.loading = TRUE, !.error = ""]
    /\ calls' = [calls EXCEPT ![c] =
                   verify(StepUrl(2),
                          [NoBody EXCEPT !.username = page.username,
                                         !.password = page.password],
                          FALSE)]
    /\ UNCHANGED <<store, joined, idle, seen, gate, boot>>

\* handleStep3 with an empty PIN: the early return.
handleStep3NoPin ==
    /\ page.mounted /\ page.step = 3
    /\ page.pin = ""
    /\ page' = [page EXCEPT !.error = "PIN kiriting"]
    /\ UNCHANGED <<store, calls, joined, idle, seen, gate, boot>>

\* handleStep3 up to its await.
handleStep3(c) ==
    /\ FirstIdle(c)
    /\ page.mounted /\ page.step = 3
    /\ page.pin # ""
    /\ page' = [page EXCEPT !.loading = TRUE, !.error = ""]
    /\ calls' = [calls EXCEPT ![c] =
                   verify(StepUrl(3),
                          [NoBody EXCEPT !.username = page.username,
                                         !.password = page.password,
                                         !.pin = page.pin],
                          page.hasCode)]
    /\ UNCHANGED <<store, joined, idle, seen, gate, boot>>

\* The request doFinalLogin(p, sc) issues with the identity and the password
\* its caller closed over.
finalCall(username, password, p, sc) ==
    verify(StepUrl(4),
           [username |-> username, password |-> password,
            pin |-> IF p = "" THEN PinPlaceholder ELSE p,
            security_code |-> IF sc = "" THEN CodePlaceholder ELSE sc],
           FALSE)

\* handleStep4 up to the await of doFinalLogin.
handleStep4(c) ==
    /\ FirstIdle(c)
    /\ page.mounted /\ page.step = 4
    /\ page.securityCode # ""
    /\ page' = [page EXCEPT !.loading = TRUE, !.error = ""]
    /\ calls' = [calls EXCEPT ![c] =
                   finalCall(page.username, page.password, page.pin,
                             page.securityCode)]
    /\ UNCHANGED <<store, joined, idle, seen, gate, boot>>

\* The back buttons of steps 2, 3 and 4.
back2 ==
    /\ page.mounted /\ page.step = 2
    /\ page' = [page EXCEPT !.step = 1, !.password = "", !.error = ""]
    /\ UNCHANGED <<store, calls, joined, idle, seen, gate, boot>>

back3 ==
    /\ page.mounted /\ page.step = 3
    /\ page' = [page EXCEPT !.step = 2, !.pin = "", !.error = ""]
    /\ UNCHANGED <<store, calls, joined, idle, seen, gate, boot>>

back4 ==
    /\ page.mounted /\ page.step = 4
    /\ page' = [page EXCEPT !.step = IF page.hasPin THEN 3 ELSE 2,
                            !.securityCode = "", !.error = ""]
    /\ UNCHANGED <<store, calls, joined, idle, seen, gate, boot>>

\* ---- operator login page: answers ----------------------------------------
\* handleStep1 after a 2xx answer.
handleStep1Ok(c) ==
    /\ page' = Shown(c, [page EXCEPT !.step = 2, !.loading = FALSE])
    /\ calls' = [calls EXCEPT ![c] = IdleCall]
    /\ UNCHANGED store

\* handleStep2 after a 2xx answer carrying data: it finalizes, or moves on.
handleStep2Ok(c, data) ==
    /\ IF ~data.has_pin /\ ~data.has_code
       THEN /\ page' = Shown(c, [page EXCEPT !.hasPin = data.has_pin,
                                             !.hasCode = data.has_code])
            /\ calls' = [calls EXCEPT ![c] =
                           [finalCall(calls[c].body.username,
                                      calls[c].body.password, "", "")
                              EXCEPT !.stale = calls[c].stale]]
       ELSE /\ page' = Shown(c, [page EXCEPT
                                   !.hasPin = data.has_pin,
                                   !.hasCode = data.has_code,
                                   !.step = IF ~data.has_pin THEN 4 ELSE 3,
                                   !.loading = FALSE])
            /\ calls' = [calls EXCEPT ![c] = IdleCall]
    /\ UNCHANGED store

\* handleStep3 after a 2xx answer: it finalizes, or moves on.
handleStep3Ok(c) ==
    /\ IF ~calls[c].hasCode
       THEN /\ page' = page
            /\ calls' = [calls EXCEPT ![c] =
                           [finalCall(calls[c].body.username,
                                      calls[c].body.password,
                                      calls[c].body.pin, "")
                              EXCEPT !.stale = calls[c].stale]]
       ELSE /\ page' = Shown(c, [page EXCEPT !.step = 4, !.loading = FALSE])
            /\ calls' = [calls EXCEPT ![c] = IdleCall]
    /\ UNCHANGED store

\* doFinalLogin after a 2xx answer: setSuperAuth and navigate to the
\* dashboard; the login page, which renders nothing for an operator, is
\* unmounted.
doFinalLoginOk(c, admin, token, refreshToken) ==
    /\ store' = setSuperAuth(store, admin, token, refreshToken)
    /\ page' = NoPage
    /\ calls' = [d \in Calls |->
                   IF d = c THEN IdleCall ELSE Orphan(calls[d])]

\* A 2xx answer to a verification call.
StepResponseOk(c, data, admin, token, refreshToken) ==
    /\ calls[c].pc = "sent"
    /\ IsStepCall(calls[c])
    /\ CASE Stage(calls[c]) = 1 -> handleStep1Ok(c)
         [] Stage(calls[c]) = 2 -> handleStep2Ok(c, data)
         [] Stage(calls[c]) = 3 -> handleStep3Ok(c)
         [] Stage(calls[c]) = 4 -> doFinalLoginOk(c, admin, token, refreshToken)
    /\ UNCHANGED <<joined, idle, gate, boot>>

\* err.response?.data?.detail || 'Xatolik'
errorText(status) == IF detail(status) # Null THEN detail(status) ELSE "Xatolik"

\* The catch and finally blocks of the handler that issued the call.
stepCatch(n, status) ==
    CASE n = 1 -> IF status \in {423, 429}
                  THEN [page EXCEPT !.lockMsg = errorText(status),
                                    !.loading = FALSE]
                  ELSE [page EXCEPT !.error = errorText(status),
                                    !.loading = FALSE]
      [] n = 2 -> IF status = 423
                  THEN [page EXCEPT !.lockMsg = detail(status),
                                    !.loading = FALSE]
                  ELSE [page EXCEPT !.error = errorText(status),
                                    !.loading = FALSE]
      [] n \in {3, 4} -> [page EXCEPT !.error = errorText(status),
                                      !.loading = FALSE]

\* A failed answer to a verification call.  A 401 is first handled by the
\* operator gateway: superLogout() and the assignment of '/s-panel/access'
\* to window.location.href, which loads the document anew: the requests of
\* the old document are aborted and the page starts from its initial state.
stepResponseError(c, status) ==
    IF status = 401
    THEN /\ store' = superLogout(store)
         /\ page' = FreshPage
         /\ calls' = [d \in Calls |-> IdleCall]
    ELSE /\ page' = Shown(c, stepCatch(Stage(calls[c]), status))
         /\ calls' = [calls EXCEPT ![c] = IdleCall]
         /\ UNCHANGED store

StepResponseError(c, status) ==
    /\ calls[c].pc = "sent"
    /\ IsStepCall(calls[c])
    /\ stepResponseError(c, status)
    /\ seen' = IF status = 401 THEN NoSeen ELSE seen
    /\ UNCHANGED <<joined, idle, gate, boot>>

\* ---- operator login page: navigation -------------------------------------
\* The user leaves /s-panel/access inside the application (history
\* navigation): the page is unmounted, its requests stay in flight.
LeavePage ==
    /\ page.mounted
    /\ page' = NoPage
    /\ seen' = NoSeen
    /\ calls' = [d \in Calls |-> Orphan(calls[d])]
    /\ UNCHANGED <<store, joined, idle, gate, boot>>

\* The user comes to /s-panel/access: a new instance of the page mounts.
EnterPage ==
    /\ ~page.mounted
    /\ ~store.isSuperAdmin
    /\ page' = FreshPage
    /\ seen' = NoSeen
    /\ UNCHANGED <<store, calls, joined, idle, gate, boot>>

\* History kept with a 2xx answer to request c: the identities that passed
\* step 1, and the step from which the page moved to step 4.
TrackPassed(c) ==
    seen' = IF Stage(calls[c]) = 4 THEN NoSeen
            ELSE [seen EXCEPT
                    !.passed = IF Stage(calls[c]) = 1 /\ ~calls[c].stale
                               THEN @ \cup {calls[c].body.username}
                               ELSE @,
                    !.from = IF page'.step = 4 /\ page.step # 4
                             THEN page.step
                             ELSE @]

\* The operator login flow, from the first visit of the page to the logout
\* of the operator it signed in, with at most MaxStepCalls verification calls
\* in flight.
MayVerify == Cardinality(StepCalls) < MaxStepCalls

NextLogin ==
    \/ \E v \in Usernames : setUsername(v)
    \/ \E v \in Passwords : setPassword(v)
    \/ \E v \in Pins : setPin(v)
    \/ \E v \in SecurityCodes : setSecurityCode(v)
    \/ \E c \in Calls : MayVerify /\ handleStep1(c)
    \/ \E c \in Calls : MayVerify /\ handleStep2(c)
    \/ handleStep3NoPin
    \/ \E c \in Calls : MayVerify /\ handleStep3(c)
    \/ \E c \in Calls : MayVerify /\ handleStep4(c)
    \/ back2
    \/ back3
    \/ back4
    \/ \E c \in Calls, data \in FactorReports, admin \in Admins,
          token \in SuperTokens, refreshToken \in SuperRefreshTokens :
          StepResponseOk(c, data, admin, token, refreshToken) /\ TrackPassed(c)
    \/ \E c \in Calls, status \in StepErrorStatuses :
          StepResponseError(c, status)
    \/ LeavePage
    \/ EnterPage
    \/ UserSuperLogout /\ page' = FreshPage /\ seen' = NoSeen
                       /\ UNCHANGED <<joined, idle, gate, boot>>

SpecLogin == Init /\ [][NextLogin]_vars

\* ---- operator login: the factors the server declares ---------------------
\* History kept with a 2xx answer to request c: the last report of
\* verify-step2 for each identity.
TrackReports(c, data) ==
    seen' = IF Stage(calls[c]) = 4 THEN NoSeen
            ELSE IF Stage(calls[c]) = 2 /\ ~calls[c].stale
            THEN [seen EXCEPT !.reports[calls[c].body.username] = Declared(data)]
            ELSE seen

\* The factors of an account do not change while it signs in: an answer of
\* verify-step2 repeats what the server reported for the identity before.
SameFactors(c, data) ==
    Stage(calls[c]) = 2
        => seen.reports[calls[c].body.username] \in {NoReport, Declared(data)}

\* The server accepts the credentials of the form's value sets; the empty
\* password a cleared field leaves is not one of them.
Accepted(c) ==
    Stage(calls[c]) >= 2 => calls[c].body.password \in Passwords

\* The login flow on a server that accepts every credential, with any number
\* of verification calls in flight.
NextFactors ==
    \/ \E v \in Usernames : setUsername(v)
    \/ \E v \in Passwords : setPassword(v)
    \/ \E v \in Pins : setPin(v)
    \/ \E v \in SecurityCodes : setSecurityCode(v)
    \/ \E c \in Calls : handleStep1(c)
    \/ \E c \in Calls : handleStep2(c)
    \/ \E c \in Calls : handleStep3(c)
    \/ \E c \in Calls : handleStep4(c)
    \/ back2
    \/ back3
    \/ back4
    \/ \E c \in Calls, data \in FactorReports, admin \in Admins,
          token \in SuperTokens, refreshToken \in SuperRefreshTokens :
          /\ StepResponseOk(c, data, admin, token, refreshToken)
          /\ Accepted(c)
          /\ SameFactors(c, data)
          /\ TrackReports(c, data)
    \/ UserSuperLogout /\ page' = FreshPage /\ seen' = NoSeen
                       /\ UNCHANGED <<joined, idle, gate, boot>>

SpecFactors == Init /\ [][NextFactors]_vars

\* ---- idle monitor (useSessionTimeout) ----------------------------------
Modes == {"tenant", "super"}

\* The path '/'.
RootPath == <<"">>

\* The session of the domain a monitor watches is in the store.
Active(s, mode) ==
    IF mode = "tenant" THEN s.isAuthenticated ELSE s.isSuperAdmin

\* Mutant of resetTimer: the pending timeout is not cleared.
resetTimerKeepsOld(i) ==
    [i EXCEPT !.timers = @ \cup {TimeoutTicks},
              !.timerRef = TimeoutTicks, !.quiet = 0]

\* resetTimer: clearTimeout(timerRef.current), then a timeout of the full
\* duration.
resetTimer(i) ==
    [i EXCEPT !.timers = (@ \ {i.timerRef}) \cup {TimeoutTicks},
              !.timerRef = TimeoutTicks, !.quiet = 0]

\* The layout of a signed-in domain mounts its monitor: the effect starts
\* the timer and registers the event listeners.
IdleMount(mode) ==
    /\ idle.mode = "none"
    /\ Active(store, mode)
    /\ idle' = resetTimer([idle EXCEPT !.mode = mode, !.owner = mode,
                                        !.timerRef = -1,
                                        !.listeners = @ + 1,
                                        !.href = NoRedirect])
    /\ UNCHANGED <<store, calls, joined, page, seen, gate, boot>>

\* One of the tracked events (EVENTS) reaches the window.
IdleActivity ==
    /\ idle.mode # "none"
    /\ idle' = resetTimer(idle)
    /\ UNCHANGED <<store, calls, joined, page, seen, gate, boot>>

\* The clock advances by one tick; a timeout that is due runs first.
IdleTick ==
    /\ idle.timers # {}
    /\ \A t \in idle.timers : t > 0
    /\ idle' = [idle EXCEPT !.timers = {t - 1 : t \in @},
                            !.timerRef = @ - 1,
                            !.quiet = @ + 1]
    /\ UNCHANGED <<store, calls, joined, page, seen, gate, boot>>

\* Mutant of doLogoutStore: the mode is ignored.
doLogoutStoreAnyMode(s, mode) == superLogout(s)

\* doLogout: the store after it.
doLogoutStore(s, mode) == IF mode = "super" THEN superLogout(s) ELSE logout(s)

\* doLogout: the value it assigns to window.location.href.
doLogoutHref(s, mode) ==
    IF mode = "super" THEN OperatorEntry
    ELSE IF s.tenantSlug # Null THEN TenantLogin(s.tenantSlug)
    ELSE RootPath

\* A timeout is due: doLogout runs, the document is replaced and with it the
\* monitor and its timers.
IdleFire ==
    /\ 0 \in idle.timers
    /\ store' = doLogoutStore(store, idle.owner)
    /\ idle' = [NoMonitor EXCEPT !.href = doLogoutHref(store, idle.owner)]
    /\ UNCHANGED <<calls, joined, page, seen, gate, boot>>

\* Mutant of cleanup: the pending timeout is not cleared.
cleanupKeepsTimer(i) ==
    [i EXCEPT !.mode = "none", !.timerRef = -1, !.quiet = 0,
              !.listeners = 0]

\* The cleanup of the effect: clearTimeout(timerRef.current) and
\* removeEventListener for every tracked event.
cleanup(i) ==
    [i EXCEPT !.mode = "none", !.timers = @ \ {i.timerRef}, !.timerRef = -1,
              !.quiet = 0, !.listeners = 0]

\* The route guards unmount the layout, and with it the monitor (whose
\* cleanup clears the timeout), once the session it watches has left the
\* store.
Guarded(s) ==
    IF idle.mode = "none" \/ Active(s, idle.mode) THEN idle ELSE cleanup(idle)

\* The user leaves the pages of the layout for a page outside it.
IdleUnmount ==
    /\ idle.mode # "none"
    /\ idle' = cleanup(idle)
    /\ UNCHANGED <<store, calls, joined, page, seen, gate, boot>>

\* Sessions under the idle monitor: sign-in and sign-out of both domains and
\* calls that are answered while the clock runs.
NextIdle ==
    \/ \E c \in Calls, slug \in Slugs :
          idle.mode = "none" /\ LoginSubmit(c, slug) /\ UNCHANGED aux
    \/ \E c \in Calls, user \in Users, refreshToken \in RefreshTokens :
          /\ LoginSuccess(c, user, "T1", refreshToken)
          /\ idle' = Guarded(store')
          /\ UNCHANGED <<joined, page, seen, gate, boot>>
    \/ \E c \in Calls : ApiSend(c, <<"products">>) /\ UNCHANGED aux
    \/ \E c \in Calls : ApiResponseOk(c) /\ UNCHANGED aux
    \/ \E c \in Calls, url \in SuperUrls :
          /\ IsFinalLogin(url) => idle.mode = "none"
          /\ SuperSend(c, url)
          /\ UNCHANGED aux
    \/ \E c \in Calls, admin \in Admins, token \in SuperTokens,
          refreshToken \in SuperRefreshTokens :
          /\ SuperResponseOk(c, admin, token, refreshToken)
          /\ idle' = Guarded(store')
          /\ UNCHANGED <<joined, page, seen, gate, boot>>
    \/ \E c \in Calls : Return(c) /\ UNCHANGED aux
    \/ UserLogout /\ idle' = Guarded(store')
                  /\ UNCHANGED <<joined, page, seen, gate, boot>>
    \/ UserSuperLogout /\ idle' = Guarded(store')
                       /\ UNCHANGED <<joined, page, seen, gate, boot>>
    \/ \E mode \in Modes : IdleMount(mode)
    \/ IdleActivity
    \/ IdleTick
    \/ IdleFire
    \/ IdleUnmount

SpecIdle == Init /\ [][NextIdle]_vars

\* ---- access gate (TenantProtectedRoute) ---------------------------------
setUser(s, user) == [s EXCEPT !.user = user]

\* { ...user, payment_required: !!data.payment_required,
\*   payment_message: data.payment_message || '' }
withPayment(user, data) ==
    IF data.payment_required THEN DueUser[BaseUser(user)]
                             ELSE PaidUser[BaseUser(user)]

FirstIdlePoll(p) ==
    /\ gate.polls[p].pc = "idle"
    /\ \A q \in Polls : q < p => gate.polls[q].pc # "idle"

\* checkTenantStatus up to its await: the GET is issued.
checkTenantStatus(g, p) ==
    [g EXCEPT !.polls[p] = [pc |-> "sent", live |-> TRUE, user |-> g.user,
                            urlSlug |-> g.urlSlug]]

\* Mutant of unmount: the interval is not cleared.
unmountKeepsInterval(g) ==
    [NoGate EXCEPT !.interval = g.interval,
                   !.polls = [p \in Polls |->
                                [g.polls[p] EXCEPT !.live = FALSE]]]

\* The component unmounts: the cleanup of the polling effect clears the
\* interval; the polls in flight stay in flight.
unmount(g) ==
    [NoGate EXCEPT !.polls = [p \in Polls |->
                                [g.polls[p] EXCEPT !.live = FALSE]]]

\* The render of a mounted gate on store s: <Navigate> to the login page,
\* which unmounts the gate, unless s holds a session for the slug of the URL.
Rendered(g, s) ==
    IF g.mounted /\ ~(s.isAuthenticated /\ s.tenantSlug = g.urlSlug)
    THEN unmount(g)
    ELSE g

\* The first commit of a gate on the store s: the polling effect (the
\* immediate check in slot p and the interval, with a session only) and the
\* "Init from user" effect.
mounted(s, urlSlug, p) ==
    LET g0 == [gate EXCEPT
                 !.mounted = TRUE, !.urlSlug = urlSlug, !.user = s.user,
                 !.last = "none",
                 !.paymentBlock =
                     s.user # Null /\ payment_required(s.user) = "true",
                 !.paymentMsg =
                     IF s.user # Null /\ payment_required(s.user) = "true"
                     THEN "pay" ELSE ""]
    IN  IF s.isAuthenticated
        THEN [checkTenantStatus(g0, p) EXCEPT !.interval = TRUE]
        ELSE g0

\* A route under /:tenantSlug is entered: TenantProtectedRoute mounts, its
\* effects run, and its render decides whether it stays.
GateMount(urlSlug) ==
    /\ ~gate.mounted
    /\ \E p \in Polls :
          /\ FirstIdlePoll(p)
          /\ gate' = Rendered(mounted(store, urlSlug, p), store)
    /\ UNCHANGED <<store, calls, joined, page, idle, seen, boot>>

\* The interval elapses: checkTenantStatus is called.
GateInterval ==
    /\ gate.interval
    /\ \E p \in Polls :
          /\ FirstIdlePoll(p)
          /\ gate' = checkTenantStatus(gate, p)
    /\ UNCHANGED <<store, calls, joined, page, idle, seen, boot>>

\* Mutant of received: an answer can block but never unblock.
receivedBlocksOnly(g, live, data) ==
    IF live
    THEN [g EXCEPT !.paymentBlock = @ \/ data.payment_required,
                   !.paymentMsg = data.payment_message,
                   !.last = Reported(data)]
    ELSE g

\* setPaymentBlock and setPaymentMsg of a 2xx answer; they do nothing for an
\* instance that is no longer mounted.
received(g, live, data) ==
    IF live
    THEN [g EXCEPT !.paymentBlock = data.payment_required,
                   !.paymentMsg = data.payment_message,
                   !.last = Reported(data)]
    ELSE g

\* "Sync to store": the user the closure holds is compared with the answer
\* and, when they differ, written to the store with the answer's fields.
syncToStore(s, user, data) ==
    IF user # Null /\ payment_required(user) # Reported(data)
    THEN setUser(s, withPayment(user, data))
    ELSE s

\* The GET of poll p is answered 2xx with data.
GatePollOk(p, data) ==
    /\ gate.polls[p].pc = "sent"
    /\ store' = syncToStore(store, gate.polls[p].user, data)
    /\ gate' = Rendered([received(gate, gate.polls[p].live, data)
                           EXCEPT !.polls[p] = NoPoll], store')
    /\ UNCHANGED <<calls, joined, page, idle, seen, boot>>

\* The GET of poll p fails: the catch block ignores it.
GatePollFail(p) ==
    /\ gate.polls[p].pc = "sent"
    /\ gate' = [gate EXCEPT !.polls[p] = NoPoll]
    /\ UNCHANGED <<store, calls, joined, page, idle, seen, boot>>

\* The user leaves the tenant routes for a route outside the gate.
GateUnmount ==
    /\ gate.mounted
    /\ gate' = unmount(gate)
    /\ UNCHANGED <<store, calls, joined, page, idle, seen, boot>>

\* The button of the payment overlay: logout() and an assignment to
\* window.location.href, which replaces the document and with it every
\* request in flight.
OverlayLogout ==
    /\ gate.mounted
    /\ gate.paymentBlock
    /\ store' = logout(store)
    /\ gate' = NoGate
    /\ calls' = [c \in Calls |-> IdleCall]
    /\ UNCHANGED <<joined, page, idle, seen, boot>>

\* The tenant session under the access gate.
NextGate ==
    \/ \E c \in Calls, slug \in Slugs :
          /\ ~gate.mounted
          /\ LoginSubmit(c, slug)
          /\ UNCHANGED aux
    \/ \E c \in Calls, user \in Users, refreshToken \in RefreshTokens :
          /\ LoginSuccess(c, user, "T1", refreshToken)
          /\ gate' = Rendered(gate, store')
          /\ UNCHANGED <<joined, page, idle, seen, boot>>
    \/ UserLogout /\ gate' = Rendered(gate, store')
                  /\ UNCHANGED <<joined, page, idle, seen, boot>>
    \/ \E urlSlug \in Slugs : GateMount(urlSlug)
    \/ GateInterval
    \/ \E p \in Polls, data \in PollData : GatePollOk(p, data)
    \/ \E p \in Polls : GatePollFail(p)
    \/ GateUnmount
    \/ OverlayLogout

SpecGate == Init /\ [][NextGate]_vars

\* ---- the store on its own ------------------------------------------------
\* The actions of useAuthStore, called with any arguments in any order.
StoreSetAuth(user, token, refreshToken, tenantSlug) ==
    /\ store' = setAuth(store, user, token, refreshToken, tenantSlug)
    /\ UNCHANGED <<calls, joined, page, idle, seen, gate, boot>>

StoreSetToken(token) ==
    /\ store' = setToken(store, token)
    /\ UNCHANGED <<calls, joined, page, idle, seen, gate, boot>>

StoreSetUser(user) ==
    /\ store' = setUser(store, user)
    /\ UNCHANGED <<calls, joined, page, idle, seen, gate, boot>>

StoreLogout ==
    /\ store' = logout(store)
    /\ UNCHANGED <<calls, joined, page, idle, seen, gate, boot>>

StoreSetSuperAuth(admin, token, refreshToken) ==
    /\ store' = setSuperAuth(store, admin, token, refreshToken)
    /\ UNCHANGED <<calls, joined, page, idle, seen, gate, boot>>

StoreSuperLogout ==
    /\ store' = superLogout(store)
    /\ UNCHANGED <<calls, joined, page, idle, seen, gate, boot>>

\* The arguments the actions are called with.
StoreUsers == Users \cup {PaidUser[u] : u \in Users} \cup {DueUser[u] : u \in Users}
StoreTokens == AccessTokens \cup {"T3"}
StoreRefreshTokens == RefreshTokens \cup {"R2"}
StoreAdmins == Admins \cup {"ops"}
StoreSuperTokens == SuperTokens \cup {"S2"}

NextStore ==
    \/ \E user \in StoreUsers, token \in StoreTokens,
          refreshToken \in StoreRefreshTokens, tenantSlug \in Slugs :
          StoreSetAuth(user, token, refreshToken, tenantSlug)
    \/ \E token \in StoreTokens : StoreSetToken(token)
    \/ \E user \in StoreUsers : StoreSetUser(user)
    \/ StoreLogout
    \/ \E admin \in StoreAdmins, token \in StoreSuperTokens,
          refreshToken \in SuperRefreshTokens :
          StoreSetSuperAuth(admin, token, refreshToken)
    \/ StoreSuperLogout

\* The store of a signed-in application: a tenant or an operator session.
SignedIn ==
    {setAuth(InitialStore, user, token, refreshToken, tenantSlug) :
        user \in Users, token \in AccessTokens,
        refreshToken \in RefreshTokens, tenantSlug \in Slugs}
    \cup {setSuperAuth(InitialStore, admin, token, refreshToken) :
            admin \in Admins, token \in SuperTokens,
            refreshToken \in SuperRefreshTokens}

InitStore ==
    /\ boot = Ready
    /\ store \in SignedIn
    /\ calls = [c \in Calls |-> IdleCall]
    /\ joined = [c \in Calls |-> 0]
    /\ page = FreshPage
    /\ idle = NoMonitor
    /\ seen = NoSeen
    /\ gate = NoGate

SpecStore == InitStore /\ [][NextStore]_vars

\* ---- restoration and the route guards -----------------------------------
\* The fields partialize keeps.
PersistedFields ==
    {"token", "refreshToken", "user", "tenantSlug", "isAuthenticated",
     "superAdmin", "superToken", "superRefreshToken", "isSuperAdmin"}

partialize(s) == [f \in PersistedFields |-> s[f]]

\* The default merge of the middleware: { ...current, ...persisted }.
merge(persisted, current) ==
    [f \in DOMAIN current |->
        IF f \in DOMAIN persisted THEN persisted[f] ELSE current[f]]

\* What TenantProtectedRoute renders for /:urlSlug on store s with the flag
\* hasHydrated: the loader, <Navigate> to the login page, or the overlay or
\* the children.
TenantProtectedRoute(hasHydrated, s, urlSlug) ==
    IF ~hasHydrated THEN "loader"
    ELSE IF ~s.isAuthenticated \/ s.tenantSlug # urlSlug THEN "login"
    ELSE "content"

\* Mutant of SuperProtectedRoute: the flag is not looked at.
SuperProtectedRouteNoLoader(hasHydrated, s) ==
    IF ~s.isSuperAdmin THEN "login" ELSE "content"

\* What SuperProtectedRoute renders.
SuperProtectedRoute(hasHydrated, s) ==
    IF ~hasHydrated THEN "loader"
    ELSE IF ~s.isSuperAdmin THEN "login"
    ELSE "content"

\* The document is created: the store holds its initial state and the flag
\* is false.
Created(storage) ==
    [hasHydrated |-> FALSE, stage |-> "created", storage |-> storage,
     view |-> NoView]

\* The item a document can find: none, an unreadable one, or the snapshot
\* of a session.
Storages == {Absent, Corrupt} \cup {Item(partialize(s)) : s \in SignedIn}

InitBoot ==
    /\ boot \in {Created(storage) : storage \in Storages}
    /\ store = InitialStore
    /\ gate = NoGate
    /\ calls = [c \in Calls |-> IdleCall]
    /\ joined = [c \in Calls |-> 0]
    /\ page = FreshPage
    /\ idle = NoMonitor
    /\ seen = NoSeen

\* The rehydration reads the item and sets the merged state.
Rehydrate ==
    /\ boot.stage = "created"
    /\ boot.storage.kind # "corrupt"
    /\ store' = IF boot.storage.kind = "state"
                THEN merge(boot.storage.state, store)
                ELSE store
    /\ boot' = [boot EXCEPT !.stage = "merged"]
    /\ UNCHANGED <<calls, joined, page, idle, seen, gate>>

\* The item cannot be read: the callback of onRehydrateStorage is called
\* without a state, and state?.setHasHydrated(true) does nothing.
RehydrateFails ==
    /\ boot.stage = "created"
    /\ boot.storage.kind = "corrupt"
    /\ boot' = [boot EXCEPT !.stage = "failed"]
    /\ UNCHANGED <<store, calls, joined, page, idle, seen, gate>>

\* setHasHydrated: set({ _hasHydrated: state }).
setHasHydrated(b, state) == [b EXCEPT !.hasHydrated = state]

\* The callback of onRehydrateStorage after the merged state was set.
OnRehydrated ==
    /\ boot.stage = "merged"
    /\ boot' = [setHasHydrated(boot, TRUE) EXCEPT !.stage = "done"]
    /\ UNCHANGED <<store, calls, joined, page, idle, seen, gate>>

\* A route under /:urlSlug is rendered.
RenderTenant(urlSlug) ==
    /\ boot' = [boot EXCEPT !.view =
                  [route |-> "tenant", urlSlug |-> urlSlug,
                   out |-> TenantProtectedRoute(boot.hasHydrated, store,
                                                urlSlug)]]
    /\ UNCHANGED <<store, calls, joined, page, idle, seen, gate>>

\* A route under /s-panel is rendered.
RenderSuper ==
    /\ boot' = [boot EXCEPT !.view =
                  [route |-> "super", urlSlug |-> Null,
                   out |-> SuperProtectedRoute(boot.hasHydrated, store)]]
    /\ UNCHANGED <<store, calls, joined, page, idle, seen, gate>>

\* The document is loaded again: a new store, and the item is what the
\* middleware wrote at the last change of the store, unless it was damaged
\* or removed since.
Reload(storage) ==
    /\ boot.stage \in {"done", "failed"}
    /\ storage \in {Absent, Corrupt, Item(partialize(store))}
    /\ boot.stage = "failed" => storage = boot.storage
    /\ boot' = Created(storage)
    /\ store' = InitialStore
    /\ UNCHANGED <<calls, joined, page, idle, seen, gate>>

\* The start of the application and the sign-outs of a restored session.
NextBoot ==
    \/ Rehydrate
    \/ RehydrateFails
    \/ OnRehydrated
    \/ \E urlSlug \in Slugs : RenderTenant(urlSlug)
    \/ RenderSuper
    \/ \E storage \in Storages : Reload(storage)
    \/ boot.view.out = "content" /\ UserLogout /\ UNCHANGED aux
    \/ boot.view.out = "content" /\ UserSuperLogout /\ UNCHANGED aux

SpecBoot == InitBoot /\ [][NextBoot]_vars

\* ---- the route guards over a restored session ----------------------------
\* Mutant of TenantGate: the blocked flag is not looked at.
TenantGateNoOverlay(hasHydrated, s, urlSlug, paymentBlock) ==
    LET out == TenantProtectedRoute(hasHydrated, s, urlSlug)
    IN  IF out = "content" THEN "children" ELSE out

\* What TenantProtectedRoute returns, the payment overlay and the children
\* told apart.
TenantGate(hasHydrated, s, urlSlug, paymentBlock) ==
    LET out == TenantProtectedRoute(hasHydrated, s, urlSlug)
    IN  IF out = "content"
        THEN (IF paymentBlock THEN "overlay" ELSE "children")
        ELSE out

\* The paymentBlock a render for /:urlSlug reads: the state of the mounted
\* instance, or the initial value of a new one.
BlockOf(urlSlug) ==
    gate.mounted /\ gate.urlSlug = urlSlug /\ gate.paymentBlock

\* A route under /:urlSlug is rendered.
RenderGate(urlSlug) ==
    /\ boot' = [boot EXCEPT !.view =
                  [route |-> "tenant", urlSlug |-> urlSlug,
                   out |-> TenantGate(boot.hasHydrated, store, urlSlug,
                                      BlockOf(urlSlug))]]
    /\ UNCHANGED <<store, calls, joined, page, idle, seen, gate>>

\* The start of the application from its storage, and the restored session
\* under the access gate; the gate's component is followed from the moment
\* the flag is set, and the document is loaded again once the gate is gone.
NextGuard ==
    \/ Rehydrate
    \/ RehydrateFails
    \/ OnRehydrated
    \/ \E storage \in Storages : gate = NoGate /\ Reload(storage)
    \/ \E urlSlug \in Slugs : RenderGate(urlSlug)
    \/ RenderSuper
    \/ \E urlSlug \in Slugs : boot.hasHydrated /\ GateMount(urlSlug)
    \/ GateInterval
    \/ \E p \in Polls, data \in PollData : GatePollOk(p, data)
    \/ \E p \in Polls : GatePollFail(p)
    \/ GateUnmount
    \/ /\ boot.hasHydrated
       /\ UserLogout
       /\ gate' = Rendered(gate, store')
       /\ UNCHANGED <<joined, page, idle, seen, boot>>
    \/ boot.hasHydrated /\ UserSuperLogout /\ UNCHANGED aux

SpecGuard == InitBoot /\ [][NextGuard]_vars

\* ==== properties ==========================================================
ApiCalls == {c \in Calls : calls[c].via = "api"}

TenantCleared(s) ==
    /\ s.user = Null /\ s.token = Null /\ s.refreshToken = Null
    /\ s.tenantSlug = Null /\ s.isAuthenticated = FALSE

OperatorCleared(s) ==
    /\ s.superAdmin = Null /\ s.superToken = Null
    /\ s.superRefreshToken = Null /\ s.isSuperAdmin = FALSE

TenantFields(s) ==
    <<s.user, s.token, s.refreshToken, s.tenantSlug, s.isAuthenticated>>

OperatorFields(s) ==
    <<s.superAdmin, s.superToken, s.superRefreshToken, s.isSuperAdmin>>

\* C1: single-flight refresh.  At no time are two refresh POSTs in flight:
\* a 401 that arrives while a refresh is in flight starts no refresh of its
\* own.
C1_SingleFlightRefresh == Cardinality(Refreshing) <= 1

\* C2: all-or-nothing outcome of a batch of concurrent 401s.  When the 401
\* of request c arrived while the refresh of request joined[c] was in flight
\* and the handling of both has ended, either both were re-sent or neither.
RefreshSettled(c) == calls[c].refresh \in {"ok", "failed"}

C2_AllOrNothing ==
    \A c \in Calls :
        (joined[c] # 0 /\ RefreshSettled(c) /\ RefreshSettled(joined[c]))
            => (calls[c].replays > 0 <=> calls[joined[c]].replays > 0)

\* C5: domain exclusivity in every reachable state.  The tenant tokens and
\* the operator tokens are never non-null at the same time.
C5_DomainExclusivity ==
    ~ /\ (store.token # Null \/ store.refreshToken # Null)
      /\ (store.superToken # Null \/ store.superRefreshToken # Null)

\* The access tokens a refresh answer carries, nested or at top level.
CarriedTokens(data) == {data.tokens_access_token, data.access_token} \ {Null}

\* C3: refresh-and-replay.  When the refresh answer carries an access token,
\* the store's access token becomes that token and nothing else of the store
\* changes, the original call is re-sent once with it as bearer token; the
\* outcome of the re-sent call, whatever it is, goes to the caller and causes
\* no further refresh, re-send, logout or redirect.
C3_RefreshAndReplay ==
    [][\A c \in Calls :
         /\ (/\ calls[c].pc = "refreshing"
             /\ calls'[c].refresh = "ok"
             /\ CarriedTokens(calls'[c].data) # {})
            => /\ calls'[c].pc = "replaying"
               /\ calls'[c].Authorization \in CarriedTokens(calls'[c].data)
               /\ store'.token = calls'[c].Authorization
               /\ [store' EXCEPT !.token = store.token] = store
               /\ calls'[c].url = calls[c].url
               /\ calls'[c].baseURL = calls[c].baseURL
               /\ calls'[c].refreshes = 1
               /\ calls'[c].replays = 1
         /\ (calls[c].pc = "replaying" /\ calls'[c] # calls[c])
            => /\ calls'[c].pc = "done"
               /\ calls'[c].result.of = "replay"
               /\ calls'[c].result.state =
                     (IF calls'[c].result.status = 200 THEN "resolved"
                                                       ELSE "rejected")
               /\ calls'[c].refreshes = 1
               /\ calls'[c].replays = 1
               /\ calls'[c].redirect = NoRedirect
               /\ store' = store
      ]_vars

\* C3 witness: a re-sent call answered by another 401, handed to its caller.
C3_Witness ==
    \E c \in Calls :
        /\ calls[c].pc = "done"
        /\ calls[c].result = Rejected("replay", 401)
        /\ store.token = "T2"

\* C4: domain exclusivity under establish calls.  Right after setAuth the
\* tenant session is installed and every operator field is empty; right
\* after setSuperAuth the operator session is installed and every tenant
\* field is empty.
C4_EstablishExclusive ==
    [][\A c \in Calls :
         /\ (/\ calls[c].pc = "sent" /\ calls[c].via = "axios"
             /\ calls'[c].pc = "idle" /\ store' # store)
            => /\ OperatorCleared(store')
               /\ store'.isAuthenticated
               /\ store'.token # Null /\ store'.refreshToken # Null
               /\ store'.user # Null
               /\ store'.tenantSlug = calls[c].url[3]
         /\ (/\ calls[c].pc = "sent" /\ calls[c].via = "superApi"
             /\ IsFinalLogin(calls[c].url)
             /\ calls'[c].result.state = "resolved")
            => /\ TenantCleared(store')
               /\ store'.isSuperAdmin
               /\ store'.superToken # Null /\ store'.superRefreshToken # Null
               /\ store'.superAdmin # Null
      ]_vars

\* C4 witness: an operator session established over a tenant session (a call
\* of that tenant session is still in flight).
C4_Witness ==
    /\ store.isSuperAdmin
    /\ TenantCleared(store)
    /\ \E c \in Calls : calls[c].via = "api" /\ calls[c].pc = "sent"
                        /\ calls[c].Authorization # Null

\* The first three segments of the URL a request goes to.
Partition(call) == SubSeq(call.baseURL \o call.url, 1, 3)
TenantPartitions == {<<"api", "v1", slug>> : slug \in Slugs}
InFlight(call) == call.pc \in {"sent", "refreshing", "replaying"}

\* C6: partition correctness.  A call the tenant gateway sends while slug S
\* is stored, to a path outside the operator prefix, goes under /api/v1/S;
\* a call to an operator path and every call of the operator gateway goes
\* under no tenant partition.
C6_PartitionCorrect ==
    [][\A c \in Calls :
         /\ (/\ calls[c].pc = "idle" /\ calls'[c].pc = "sent"
             /\ calls'[c].via = "api"
             /\ store.tenantSlug # Null
             /\ ~IsSuperPath(calls'[c].url))
            => Partition(calls'[c]) = <<"api", "v1", store.tenantSlug>>
         /\ (/\ InFlight(calls'[c])
             /\ \/ calls'[c].via = "superApi"
                \/ calls'[c].via = "api" /\ IsSuperPath(calls'[c].url))
            => /\ Partition(calls'[c]) \notin TenantPartitions
               /\ Partition(calls'[c]) = <<"api", "v1", "super">>
      ]_vars

\* C6 witness: with a tenant session stored, an operator path sent through
\* the tenant gateway next to a business path sent under the partition.
C6_Witness ==
    /\ store.tenantSlug = "acme"
    /\ \E c, d \in Calls :
          /\ calls[c].via = "api" /\ calls[c].pc = "sent"
          /\ IsSuperPath(calls[c].url)
          /\ calls[d].via = "api" /\ calls[d].pc = "sent"
          /\ calls[d].baseURL = <<"api", "v1", "acme">>

\* C7: refresh failure.  When the refresh POST of a call fails, the tenant
\* session is terminated, the redirect goes to the login path of the slug
\* read when the 401 was handled, the caller gets the original 401, and the
\* call has had one refresh and no re-send.
C7_RefreshFailure ==
    [][\A c \in Calls :
         (calls[c].pc = "refreshing" /\ calls'[c].refresh = "failed")
            => /\ TenantCleared(store')
               /\ calls'[c].pc = "done"
               /\ calls'[c].redirect = TenantLogin(calls[c].tenantSlug)
               /\ calls[c].tenantSlug \in Slugs
               /\ calls'[c].result = Rejected("original", 401)
               /\ calls'[c].refreshes = 1
               /\ calls'[c].replays = 0
      ]_vars

\* C7 witness: a call whose refresh failed, with the session gone.
C7_Witness ==
    \E c \in Calls :
        /\ calls[c].refresh = "failed"
        /\ calls[c].redirect = TenantLogin("acme")
        /\ TenantCleared(store)

C9_OperatorUnauthorized ==
    [][\A c \in Calls :
         /\ (/\ calls[c].pc = "sent" /\ calls[c].via = "superApi"
             /\ calls'[c].pc = "done" /\ calls'[c].result.status = 401)
            => /\ OperatorCleared(store')
               /\ TenantFields(store') = TenantFields(store)
               /\ calls'[c].redirect = OperatorEntry
               /\ calls'[c].result = Rejected("original", 401)
         /\ calls'[c].via = "superApi"
            => /\ calls'[c].pc \in {"sent", "done"}
               /\ calls'[c].refresh = "none"
               /\ calls'[c].refreshes = 0
               /\ calls'[c].replays = 0
      ]_vars

\* C9 witness: an operator call rejected with 401 while a tenant session is
\* stored.
C9_Witness ==
    /\ store.isAuthenticated
    /\ \E c \in Calls :
          /\ calls[c].via = "superApi" /\ calls[c].pc = "done"
          /\ calls[c].result = Rejected("original", 401)
          /\ calls[c].redirect = OperatorEntry

\* C10: pass-through of other failures.  A call of either gateway that fails
\* with a status other than 401, or with no response, is rejected to its
\* caller with that error; the store is unchanged, there is no refresh and
\* no redirect.
C10_PassThrough ==
    [][\A c \in Calls :
         (/\ calls[c].pc = "sent" /\ calls[c].via \in {"api", "superApi"}
          /\ calls'[c] # calls[c]
          /\ calls'[c].result.status \in OtherErrorStatuses
          /\ calls'[c].result.state # "pending")
            => /\ calls'[c].pc = "done"
               /\ calls'[c].result.state = "rejected"
               /\ calls'[c].result.of = "original"
               /\ calls'[c].refresh = "none"
               /\ calls'[c].refreshes = 0
               /\ calls'[c].redirect = NoRedirect
               /\ store' = store
      ]_vars

\* C10 witness: calls of both gateways rejected without a response and with
\* a 500, the sessions still in place.
C10_Witness ==
    \E c, d \in Calls :
        /\ calls[c].via = "api" /\ calls[c].result = Rejected("original", 0)
        /\ calls[d].via = "superApi"
        /\ calls[d].result = Rejected("original", 500)
        /\ store.isSuperAdmin

\* C11: logout aborts an in-flight refresh of the tenant domain.  When the
\* success answer of a refresh POST arrives after the tenant session was
\* terminated by logout() (nothing else clears it under SpecBatch), no store
\* field changes, the access token stays null and the call is not re-sent.
C11_LogoutAbortsRefresh ==
    [][\A c \in Calls :
         (/\ calls[c].pc = "refreshing"
          /\ ~store.isAuthenticated
          /\ calls'[c].refresh = "ok")
            => /\ store' = store
               /\ store'.token = Null
               /\ calls'[c].pc = "done"
               /\ calls'[c].replays = 0
      ]_vars

\* ---- operator login ------------------------------------------------------
\* The step whose handler issued a verification call: a finalization call
\* carries the placeholders of the factors its handler had skipped.
IssuedAt(call) ==
    IF Stage(call) < 4 THEN Stage(call)
    ELSE IF call.body.security_code # CodePlaceholder THEN 4
    ELSE IF call.body.pin # PinPlaceholder THEN 3
    ELSE 2

\* Request c receives a 2xx answer in this step.
AnsweredOk(c) ==
    \E data \in FactorReports, admin \in Admins, token \in SuperTokens,
       refreshToken \in SuperRefreshTokens :
        StepResponseOk(c, data, admin, token, refreshToken)

\* Request c receives a failed answer in this step.
AnsweredError(c) == \E status \in StepErrorStatuses : StepResponseError(c, status)

\* The user has left the page or the step that issued request c.
Abandoned(c) ==
    \/ calls[c].stale
    \/ ~page.mounted
    \/ page.step # IssuedAt(calls[c])

\* C12: abandoned login steps have no late effect.  When the 2xx answer of
\* a verification call arrives after the user has left the page or has gone
\* back from the step that issued it, neither the login step nor the store
\* changes (so no operator session is established by it).
C12_NoLateEffect ==
    [][\A c \in Calls :
         (AnsweredOk(c) /\ Abandoned(c))
            => /\ page'.step = page.step
               /\ store' = store
      ]_vars

\* C13: the login step only moves forward on a server success.  The step
\* increases only with the 2xx answer to a verification call issued at the
\* step the page is at, and a failed answer to a call of the mounted page
\* leaves the step and the entered identity as they are.
C13_ForwardOnlyOnSuccess ==
    [][/\ (page'.mounted /\ page.mounted /\ page'.step > page.step)
          => \E c \in Calls :
                /\ AnsweredOk(c)
                /\ ~calls[c].stale
                /\ IssuedAt(calls[c]) = page.step
       /\ \A c \in Calls :
            (AnsweredError(c) /\ ~calls[c].stale)
               => /\ page'.step = page.step
                  /\ page'.username = page.username
      ]_vars

\* C14: no pipelining across login steps, for steps 1 and 2.  A call of
\* verify-step2 is only issued with an identity for which the page has
\* observed a 2xx answer of verify-step1.
C14_NoPipelining ==
    [][\A c \in Calls :
         handleStep2(c) => page.username \in seen.passed
      ]_vars

\* The last verify-step2 report the page has observed for identity u.
ReportOf(u) == IF u \in Usernames THEN seen.reports[u] ELSE NoReport
SkipPin == {"code"}

\* Request c, a call of verify-step n, receives a 2xx answer in this step.
StepAnsweredOk(c, n) ==
    /\ calls[c].pc = "sent" /\ IsStepCall(calls[c]) /\ Stage(calls[c]) = n
    /\ AnsweredOk(c)

\* Request c is a finalization call in flight.
IsFinalCall(call) == call.pc = "sent" /\ IsStepCall(call) /\ Stage(call) = 4

\* C15: step-skip correctness.  A verify-step2 answer {has_pin: false,
\* has_code: true} takes the page to step 4; while that is the last report
\* of the identity on the page, the page is never at step 3: the back button
\* of step 4 leads to step 2.
C15_StepSkip ==
    [][/\ \A c \in Calls :
            (/\ StepAnsweredOk(c, 2)
             /\ seen'.reports[calls[c].body.username] = SkipPin)
               => page'.step = 4
       /\ (back4 /\ ReportOf(page.username) = SkipPin) => page'.step = 2
       /\ (page'.mounted /\ page'.username \in Usernames
           /\ seen'.reports[page'.username] = SkipPin)
             => page'.step # 3
      ]_vars

\* C16: finalization is driven by the factors the server declared.  A call
\* of verify-step4 is issued exactly: with the 2xx answer of verify-step2
\* that reports neither factor (both placeholders), with the 2xx answer of
\* verify-step3 when the last verify-step2 report of the identity had no
\* code (the verified PIN, the placeholder code), and by the submission of a
\* code at step 4; every other 2xx answer of steps 2 and 3 to the mounted
\* page moves it to step 3 or 4 and issues no call.
C16_Finalization ==
    [][\A c \in Calls :
         /\ (IsFinalCall(calls'[c]) /\ ~IsFinalCall(calls[c]))
            => \/ handleStep4(c)
               \/ /\ StepAnsweredOk(c, 2)
                  /\ calls'[c].body.pin = PinPlaceholder
                  /\ calls'[c].body.security_code = CodePlaceholder
               \/ /\ StepAnsweredOk(c, 3)
                  /\ calls'[c].body.pin = calls[c].body.pin
                  /\ calls'[c].body.security_code = CodePlaceholder
         /\ (StepAnsweredOk(c, 2) /\ ~calls[c].stale)
            => LET report == seen'.reports[calls[c].body.username]
               IN  IF report = {}
                   THEN IsFinalCall(calls'[c])
                   ELSE /\ calls'[c].pc = "idle"
                        /\ page'.step = IF "pin" \in report THEN 3 ELSE 4
         /\ (StepAnsweredOk(c, 3) /\ ~calls[c].stale)
            => IF ReportOf(calls[c].body.username) \in {{}, {"pin"}}
               THEN IsFinalCall(calls'[c])
               ELSE calls'[c].pc = "idle" /\ page'.step = 4
      ]_vars

\* C17: lock handling at every step.  A 423 or 429 answer to a verification
\* call of the mounted page leaves the step as it is and shows the server's
\* message as the lock message, not as the generic error.
C17_LockAtEveryStep ==
    [][\A c \in Calls, status \in {423, 429} :
         (StepResponseError(c, status) /\ ~calls[c].stale)
            => /\ page'.step = page.step
               /\ page'.lockMsg = detail(status)
               /\ page'.error # detail(status)
      ]_vars

\* C18: retry after failure.  A failed answer to a verification call of the
\* mounted page clears the loading flag, and when a later call of the same
\* step succeeds and the page moves on, no lock message is shown any more.
C18_RetryAfterFailure ==
    [][\A c \in Calls :
         /\ (AnsweredError(c) /\ ~calls[c].stale) => ~page'.loading
         /\ (/\ AnsweredOk(c) /\ ~calls[c].stale
             /\ page.mounted /\ page'.mounted /\ page'.step > page.step)
            => page'.lockMsg = ""
      ]_vars

\* ---- idle monitor --------------------------------------------------------
\* C19: idle timeout.  The session is terminated by the monitor only when a
\* full duration has passed since the monitor was mounted or last saw a
\* tracked event, and the clock cannot pass that moment without it; the
\* termination leaves no timer behind; a tracked event, whatever is in
\* flight, leaves the single deadline a full duration ahead.
C19_IdleTimeout ==
    [][/\ IdleFire => /\ idle.quiet = TimeoutTicks
                      /\ ~Active(store', idle.mode)
                      /\ idle'.mode = "none"
                      /\ idle'.timers = {}
       /\ IdleActivity => /\ idle'.timers = {TimeoutTicks}
                          /\ idle'.quiet = 0
                          /\ store' = store
       /\ idle'.mode # "none"
            => /\ idle'.quiet <= TimeoutTicks
               /\ idle'.quiet = TimeoutTicks => 0 \in idle'.timers
      ]_vars

\* C19 witness: the operator session was terminated by the monitor while a
\* call of that session was in flight.
C19_Witness ==
    /\ idle.href = OperatorEntry
    /\ idle.mode = "none"
    /\ OperatorCleared(store)
    /\ \E c \in Calls : calls[c].via = "superApi" /\ calls[c].pc = "sent"
                        /\ calls[c].Authorization # Null

\* C20: idle firing equals the explicit logout of the domain.  In mode
\* 'tenant' the store becomes the one logout() produces and the target is
\* the login path of the stored slug; in mode 'super' the store becomes the
\* one superLogout() produces and the target is the operator entry point;
\* the fields of the other domain are unchanged.
C20_FireIsLogout ==
    [][IdleFire =>
         IF idle.mode = "tenant"
         THEN /\ store' = logout(store)
              /\ TenantCleared(store')
              /\ OperatorFields(store') = OperatorFields(store)
              /\ store.tenantSlug \in Slugs
              /\ idle'.href = TenantLogin(store.tenantSlug)
         ELSE /\ store' = superLogout(store)
              /\ OperatorCleared(store')
              /\ TenantFields(store') = TenantFields(store)
              /\ idle'.href = OperatorEntry
      ]_vars

\* C20 witness: the tenant session of acme was terminated by the monitor.
C20_Witness ==
    /\ idle.href = TenantLogin("acme")
    /\ idle.mode = "none"
    /\ TenantCleared(store)

\* C21: one idle timer per mount.  After every step at most one deadline is
\* pending; a mounted monitor has exactly one deadline and one set of
\* listeners; an unmounted one has neither; and a deadline only ever fires
\* for a mounted monitor.
C21_OneTimerPerMount ==
    [][/\ Cardinality(idle'.timers) <= 1
       /\ idle'.mode # "none"
            => Cardinality(idle'.timers) = 1 /\ idle'.listeners = 1
       /\ idle'.mode = "none"
            => idle'.timers = {} /\ idle'.listeners = 0
       /\ IdleFire => idle.mode # "none"
      ]_vars

\* C21 witness: the operator's monitor was mounted and torn down without
\* firing, the operator session still in the store.
C21_Witness ==
    /\ idle.mode = "none"
    /\ idle.owner = "super"
    /\ idle.href = NoRedirect
    /\ store.isSuperAdmin

\* ---- access gate ---------------------------------------------------------
\* Polls started by a step.
Started == {p \in Polls : gate.polls[p].pc = "idle" /\ gate'.polls[p].pc = "sent"}

\* C22: the access gate is non-destructive.  No answer of a tenant-status
\* poll changes any field of the store.
C22_GateLeavesStore ==
    [][(\E p \in Polls, data \in PollData : GatePollOk(p, data))
         => store' = store]_vars

\* C23: the block state follows the latest successful poll.  While the gate
\* is mounted and has received a 2xx answer, its blocked flag and message
\* are those of the latest one; a failed poll leaves both as they were.
C23_BlockFollowsPoll ==
    [][/\ gate'.mounted /\ gate'.last # "none"
            => /\ gate'.paymentBlock = (gate'.last = "true")
               /\ gate'.paymentMsg = (IF gate'.last = "true" THEN "pay" ELSE "")
       /\ \A p \in Polls, data \in PollData :
            GatePollOk(p, data) /\ gate.polls[p].live /\ gate'.mounted
               => gate'.last = Reported(data)
       /\ (\E p \in Polls : GatePollFail(p))
            => /\ gate'.paymentBlock = gate.paymentBlock
               /\ gate'.paymentMsg = gate.paymentMsg
      ]_vars

\* C23 witness: a gate that was mounted on a user whose stored flag was
\* false has blocked on one answer (the store kept its flag) and unblocked
\* on the next.
C23_Witness ==
    /\ gate.mounted
    /\ gate.last = "false"
    /\ ~gate.paymentBlock
    /\ gate.user = PaidUser["alice"]
    /\ store.user = DueUser["alice"]

\* C24: polling lifetime.  A step starts at most one poll, and only with a
\* tenant session in the store; a mount with a session starts one at once
\* and every tick of the interval starts one; the interval only exists for a
\* mounted gate with a session.
C24_PollingLifetime ==
    [][/\ Cardinality(Started) <= 1
       /\ Started # {} => store.isAuthenticated
       /\ (\E urlSlug \in Slugs : GateMount(urlSlug)) /\ store.isAuthenticated
            => Cardinality(Started) = 1
       /\ GateInterval => Cardinality(Started) = 1
       /\ gate'.interval => gate'.mounted /\ store'.isAuthenticated
      ]_vars

\* C24 witness: the session was ended by logout while a poll was in flight;
\* the gate and its interval are gone.
C24_Witness ==
    /\ ~store.isAuthenticated
    /\ ~gate.mounted
    /\ ~gate.interval
    /\ \E p \in Polls : gate.polls[p].pc = "sent" /\ ~gate.polls[p].live

\* ---- the store's actions -------------------------------------------------
\* C25: updateAccessToken frame.  setToken(t) changes no field but the tenant
\* access token, and without a tenant session it leaves a null tenant access
\* token null.
C25_SetTokenFrame ==
    [][\A t \in StoreTokens :
         StoreSetToken(t)
            => /\ [store' EXCEPT !.token = store.token] = store
               /\ ~store.isAuthenticated /\ store.token = Null
                    => store'.token = Null
      ]_vars

\* C26: terminate frame.  logout() empties every tenant field and leaves the
\* operator fields; superLogout() empties every operator field and leaves
\* the tenant fields; doing either twice is doing it once.
C26_TerminateFrame ==
    [][/\ StoreLogout => /\ TenantCleared(store')
                         /\ OperatorFields(store') = OperatorFields(store)
                         /\ logout(store') = store'
       /\ StoreSuperLogout => /\ OperatorCleared(store')
                              /\ TenantFields(store') = TenantFields(store)
                              /\ superLogout(store') = store'
      ]_vars

\* C26 witness: the store of a signed-in application holds no session any
\* more, and the fields of the tenant domain that the operator's sign-out
\* met are still there.
C26_Witness ==
    /\ ~store.isAuthenticated
    /\ OperatorCleared(store)
    /\ store.user # Null
    /\ store.token # Null

\* C27: session-record consistency.  A tenant session (authenticated flag or
\* tenant access token) carries a slug; an operator session carries none.
C27_SessionRecord ==
    /\ (store.isAuthenticated \/ store.token # Null) => store.tenantSlug # Null
    /\ store.isSuperAdmin => store.tenantSlug = Null

\* ---- restoration ---------------------------------------------------------
\* C28: readiness gate.  While the flag is false both guards render the
\* loader; the flag becomes true only with the restored state in the store,
\* and it stays true as long as the document lives; what a guard renders
\* then is decided by the session in the store.
C28_ReadinessGate ==
    [][/\ ~boot'.hasHydrated /\ boot'.view.route # "none"
            => boot'.view.out = "loader"
       /\ ~boot.hasHydrated /\ boot'.hasHydrated
            => /\ store' = store
               /\ boot.storage.kind = "state"
                    => partialize(store') = boot.storage.state
               /\ boot.storage.kind = "absent" => store' = InitialStore
       /\ boot.hasHydrated /\ ~boot'.hasHydrated
            => boot'.stage = "created" /\ store' = InitialStore
       /\ boot'.view # boot.view /\ boot'.hasHydrated
            => boot'.view.out =
                 IF boot'.view.route = "tenant"
                 THEN (IF store.isAuthenticated
                          /\ store.tenantSlug = boot'.view.urlSlug
                       THEN "content" ELSE "login")
                 ELSE (IF store.isSuperAdmin THEN "content" ELSE "login")
      ]_vars

\* C28 witness: the session of acme was restored from the storage and the
\* guard of /acme rendered the protected content.
C28_Witness ==
    /\ boot.hasHydrated
    /\ boot.storage.kind = "state"
    /\ boot.storage.state.tenantSlug = "acme"
    /\ boot.view = [route |-> "tenant", urlSlug |-> "acme", out |-> "content"]
    /\ store.tenantSlug = "acme"

\* ---- operator login: back buttons ----------------------------------------
\* C29: back transitions.  Back from step 2 shows step 1, back from step 3
\* shows step 2, back from step 4 shows the step from which step 4 was
\* reached; the username is never changed; the field of the step that is
\* left is emptied, as the user will enter it again, and the other fields
\* stay as they were.
C29_BackTransitions ==
    [][/\ back2 => /\ page'.step = 1
                   /\ page'.password = ""
                   /\ page'.username = page.username
                   /\ page'.pin = page.pin
                   /\ page'.securityCode = page.securityCode
       /\ back3 => /\ page'.step = 2
                   /\ page'.pin = ""
                   /\ page'.username = page.username
                   /\ page'.password = page.password
                   /\ page'.securityCode = page.securityCode
       /\ back4 => /\ page'.step = seen.from
                   /\ page'.securityCode = ""
                   /\ page'.username = page.username
                   /\ page'.password = page.password
                   /\ page'.pin = page.pin
      ]_vars

\* ---- tenant gateway: the end of a handled 401 ----------------------------
\* C30: every handled tenant 401 ends decisively.  When the 401 handler of a
\* call resumes after its refresh POST, exactly one of two things happens:
\* the call is re-sent with the new access token, or the tenant session is
\* terminated.
C30_DecisiveEnd ==
    [][\A c \in Calls :
         (calls[c].pc = "refreshing" /\ calls'[c].pc # "refreshing")
            => ((/\ calls'[c].pc = "replaying"
                 /\ calls'[c].replays = calls[c].replays + 1
                 /\ calls'[c].Authorization = store'.token)
                # TenantCleared(store'))
      ]_vars

\* ---- implicit behaviour --------------------------------------------------
\* C31: the stored access token belongs to the stored tenant.  When the 401
\* handler installs the token of its refresh, the session in the store is
\* the one of the slug the refresh was made for: not a session of another
\* slug, and not the operator's.
C31_TokenOfTenant ==
    [][\A c \in Calls :
         (calls[c].pc = "refreshing" /\ calls'[c].pc = "replaying")
            => /\ store'.tenantSlug # Null
                    => store'.tenantSlug = calls[c].tenantSlug
               /\ store.isSuperAdmin => store'.token = store.token
      ]_vars

\* C32: flag consistency of the store.  isAuthenticated is true exactly when
\* user, token, refreshToken and tenantSlug are all non-null, and
\* isSuperAdmin exactly when superAdmin and superToken are non-null; a
\* domain whose flag is false holds neither a user nor a token.
C32_FlagConsistency ==
    /\ store.isAuthenticated
         <=> (/\ store.user # Null /\ store.token # Null
              /\ store.refreshToken # Null /\ store.tenantSlug # Null)
    /\ store.isSuperAdmin
         <=> (store.superAdmin # Null /\ store.superToken # Null)
    /\ ~store.isAuthenticated => store.user = Null /\ store.token = Null
    /\ ~store.isSuperAdmin
         => store.superAdmin = Null /\ store.superToken = Null

\* C33: no cross-tenant payment state.  The answer of a poll changes the
\* stored user of a signed-in tenant, or the blocked flag of the gate, only
\* when the poll was made for the slug of the stored session.
C33_NoCrossTenantPayment ==
    [][\A p \in Polls, data \in PollData :
         (/\ GatePollOk(p, data)
          /\ store.isAuthenticated
          /\ gate.polls[p].urlSlug # store.tenantSlug)
            => /\ store'.user = store.user
               /\ gate'.paymentBlock = gate.paymentBlock
      ]_vars

\* C35: at most one verification call of the operator login is in flight.
\* No handler issues a call while loading is true, so two calls never
\* overlap.
C35_OneVerification ==
    [][/\ (\E c \in Calls : \/ handleStep1(c) \/ handleStep2(c)
                            \/ handleStep3(c) \/ handleStep4(c))
            => ~page.loading
       /\ Cardinality({c \in Calls : IsStepCall(calls'[c]) /\ ~calls'[c].stale})
            <= 1
      ]_vars

\* C34: the route guards.  A render shows the children of a tenant route
\* only when the flag is set, the store holds a session for the slug of the
\* URL and the gate is not blocked; it shows the operator's pages only when
\* the flag is set and isSuperAdmin is true.
C34_RouteGuards ==
    [][boot'.view # boot.view
         => /\ (boot'.view.route = "tenant" /\ boot'.view.out = "children")
                 => /\ boot.hasHydrated
                    /\ store.isAuthenticated
                    /\ store.tenantSlug = boot'.view.urlSlug
                    /\ ~BlockOf(boot'.view.urlSlug)
            /\ (boot'.view.route = "super" /\ boot'.view.out = "content")
                 => boot.hasHydrated /\ store.isSuperAdmin
      ]_vars

\* C34 witness: the restored session of acme is blocked by its gate, and
\* the render of /acme showed the overlay, not the children.
C34_Witness ==
    /\ boot.storage.kind = "state"
    /\ gate.mounted /\ gate.urlSlug = "acme" /\ gate.paymentBlock
    /\ boot.view = [route |-> "tenant", urlSlug |-> "acme", out |-> "overlay"]

====
